---- MODULE Spec2Model ----
(***************************************************************************)
(* hono-swagger-ui: the route registry of a HonoSwagger instance, the      *)
(* operations that write to it (addRoute, registerRoute, the wrapped verb  *)
(* methods of the app and of a sub-router, registerSubApp, the router      *)
(* scan, the init() middleware) and the document rendered from it.         *)
(*                                                                         *)
(* Strings are sequences of characters; a literal of the source that is    *)
(* never taken apart is one element ("api", ".ts", "GET").  A JavaScript   *)
(* object is a function from the keys it owns to their values, so that     *)
(* the spread {...a, ...b} is modelled key by key; Undefined is the value  *)
(* of a key that is present and holds undefined.                           *)
(***************************************************************************)
EXTENDS Integers, Sequences, FiniteSets, TLC

VARIABLES routes, subApp, nested, autoScanEnabled, middleware, files, fileWatcher,
          thisOptions, document, fw, analyzer

vars == <<routes, subApp, nested, autoScanEnabled, middleware, files, fileWatcher,
          thisOptions, document, fw, analyzer>>

\* ------------------------------------------------------------- bounds
MaxRoutes == 2
MaxHooks == 1
MaxSubRoutes == 1
MaxNestedMounts == 1
MaxNestedRoutes == 1

\* ------------------------------------------------------------- strings
Undefined == <<"undefined">>

\* What String(fn) gives for a handler passed where the path is expected.
HandlerSource == <<"(c)=>{}">>

isString(x) == x # HandlerSource

\* the characters that \w does not match
NonWord == {"/", ":", "{", "}", " ", ".", "(c)=>{}"}

startsWith(s, prefix) ==
  /\ Len(prefix) <= Len(s)
  /\ SubSeq(s, 1, Len(prefix)) = prefix

endsWith(s, suffix) ==
  /\ Len(suffix) <= Len(s)
  /\ SubSeq(s, Len(s) - Len(suffix) + 1, Len(s)) = suffix

toLowerCase(m) ==
  CASE m = "GET" -> "get"
    [] m = "POST" -> "post"
    [] OTHER -> m

toUpperCase(m) ==
  CASE m = "get" -> "GET"
    [] m = "post" -> "POST"
    [] OTHER -> m

\* s.split('/')
RECURSIVE split(_)
split(s) ==
  IF \A i \in 1..Len(s) : s[i] # "/" THEN <<s>>
  ELSE LET i == CHOOSE j \in 1..Len(s) :
                  s[j] = "/" /\ \A k \in 1..(j - 1) : s[k] # "/"
       IN <<SubSeq(s, 1, i - 1)>> \o split(SubSeq(s, i + 1, Len(s)))

\* length of the longest run of \w characters of s that starts at i
RECURSIVE wordRun(_, _)
wordRun(s, i) ==
  IF i > Len(s) \/ s[i] \in NonWord THEN 0 ELSE 1 + wordRun(s, i + 1)

\* ------------------------------------------------------------- objects
Get(o, k) == IF k \in DOMAIN o THEN o[k] ELSE Undefined

\* { ...a, ...b }
Spread(a, b) ==
  [k \in (DOMAIN a) \cup (DOMAIN b) |-> IF k \in DOMAIN b THEN b[k] ELSE a[k]]

NoOptions == [k \in {} |-> Undefined]

\* ------------------------------------------------------------- options
\* new HonoSwagger(app, {route: '/d', excludePaths: ['/h']})
OptionsRoute == <<"/", "d">>
OptionsExcludePaths == <<<<"/", "h">>>>

UserOptions == [route |-> OptionsRoute, excludePaths |-> OptionsExcludePaths]

DefaultOptions ==
  [route |-> <<"/", "swagger-ui">>,
   title |-> <<"API Documentation">>,
   version |-> <<"1.0.0">>,
   description |-> <<"Auto-generated API documentation">>,
   excludePaths |-> <<>>]

\* this.options = { ...defaults, ...options }
construct(userOptions) == Spread(DefaultOptions, userOptions)

shouldExcludePath(path) ==
  \/ startsWith(path, OptionsRoute)
  \/ \E i \in 1..Len(OptionsExcludePaths) : startsWith(path, OptionsExcludePaths[i])

\* ------------------------------------------------------------- paths
\* path.replace(/:(\w+)/g, '{$1}')
RECURSIVE replaceParams(_, _)
replaceParams(s, i) ==
  IF i > Len(s) THEN <<>>
  ELSE IF s[i] = ":" /\ wordRun(s, i + 1) > 0
       THEN <<"{">> \o SubSeq(s, i + 1, i + wordRun(s, i + 1)) \o <<"}">>
            \o replaceParams(s, i + 1 + wordRun(s, i + 1))
       ELSE <<s[i]>> \o replaceParams(s, i + 1)

\* openAPIPath.replace(new RegExp(`/${paramValue}(?=/|$)`), `/{${param}}`)
replaceValue(s, name, value) ==
  LET hit(i) == /\ s[i] = "/"
                /\ i + Len(value) <= Len(s)
                /\ SubSeq(s, i + 1, i + Len(value)) = value
                /\ (i + Len(value) = Len(s) \/ s[i + Len(value) + 1] = "/")
      hits == {i \in 1..Len(s) : hit(i)}
  IN IF hits = {} THEN s
     ELSE LET i == CHOOSE j \in hits : \A k \in hits : j <= k
          IN SubSeq(s, 1, i) \o <<"{">> \o name \o <<"}">>
             \o SubSeq(s, i + Len(value) + 1, Len(s))

RECURSIVE replaceValues(_, _)
replaceValues(s, params) ==
  IF params = <<>> THEN s
  ELSE replaceValues(replaceValue(s, Head(params)[1], Head(params)[2]), Tail(params))

\* `{} as Context`: c.req is undefined, c.req.param() throws and the catch ignores it
NoContext == [req |-> FALSE, params |-> <<>>]

convertToOpenAPIPath(path, c) ==
  LET openAPIPath == replaceParams(path, 1)
  IN IF c.req THEN replaceValues(openAPIPath, c.params) ELSE openAPIPath

\* path.match(/:\w+/g), each match without its colon
RECURSIVE colonParams(_, _)
colonParams(s, i) ==
  IF i > Len(s) THEN <<>>
  ELSE IF s[i] = ":" /\ wordRun(s, i + 1) > 0
       THEN <<SubSeq(s, i + 1, i + wordRun(s, i + 1))>>
            \o colonParams(s, i + 1 + wordRun(s, i + 1))
       ELSE colonParams(s, i + 1)

pathParameter(name) == [name |-> name, in |-> "path", required |-> TRUE, type |-> "string"]

extractParametersFromPath(path) ==
  LET names == colonParams(path, 1)
  IN [i \in 1..Len(names) |-> pathParameter(names[i])]

DefaultTag == <<"default">>

generateTagFromPath(path) ==
  LET segments == SelectSeq(split(path), LAMBDA s : s # <<>> /\ s[1] # "{")
  IN IF Len(segments) > 0
     THEN (IF Len(segments) > 1 THEN segments[2] ELSE segments[1])
     ELSE DefaultTag

\* ------------------------------------------------------------- route values
response(description, contentType, schemaType) ==
  [description |-> description, contentType |-> contentType, schemaType |-> schemaType]

generateDefaultResponses ==
  ("200" :> response("Success", "application/json", "object"))
  @@ ("400" :> response("Bad Request", "application/json", "object{message}"))
  @@ ("500" :> response("Internal Server Error", "application/json", "object{message}"))

NoResponses == [k \in {} |-> Undefined]

GenericBody == <<"application/json", "object">>

\* a string is truthy unless it is empty; undefined is falsy
Truthy(v) == v # Undefined /\ v # <<>>

BodyMethods == {"post", "put", "patch"}

generateRequestBodyFromMethod(method, options) ==
  IF toLowerCase(method) \in BodyMethods /\ Truthy(Get(options, "requestBody"))
  THEN options.requestBody
  ELSE IF toLowerCase(method) \in BodyMethods THEN GenericBody ELSE Undefined

\* ------------------------------------------------------------- registry
Key(r) == <<r.method, r.path>>

Keys(rs) == {Key(rs[i]) : i \in 1..Len(rs)}

isRouteDocumented(rs, method, path) ==
  \E i \in 1..Len(rs) : rs[i].method = method /\ rs[i].path = path

\* a findIndex that forgets to compare the method
findIndexByPath(rs, route) ==
  LET found == {i \in 1..Len(rs) : rs[i].path = route.path}
  IN IF found = {} THEN 0 ELSE CHOOSE i \in found : \A j \in found : i <= j

findIndex(rs, route) ==
  LET found == {i \in 1..Len(rs) : rs[i].method = route.method /\ rs[i].path = route.path}
  IN IF found = {} THEN 0 ELSE CHOOSE i \in found : \A j \in found : i <= j

\* an addRoute that never looks for the existing entry
addRoutePush(rs, route) == Append(rs, route)

\* an addRoute that merges the tags of the two entries instead of overriding them
addRouteJoinTags(rs, route) ==
  LET existingIndex == findIndex(rs, route)
  IN IF existingIndex > 0
     THEN [rs EXCEPT ![existingIndex] =
             [Spread(rs[existingIndex], route) EXCEPT !.tags = rs[existingIndex].tags \o route.tags]]
     ELSE Append(rs, route)

\* an addRoute that drops the existing entry and appends the merged one
addRouteMoveLast(rs, route) ==
  LET existingIndex == findIndex(rs, route)
  IN IF existingIndex > 0
     THEN Append(SubSeq(rs, 1, existingIndex - 1) \o SubSeq(rs, existingIndex + 1, Len(rs)),
                 Spread(rs[existingIndex], route))
     ELSE Append(rs, route)

addRoute(rs, route) ==
  LET existingIndex == findIndex(rs, route)
  IN IF existingIndex > 0
     THEN [rs EXCEPT ![existingIndex] = Spread(rs[existingIndex], route)]
     ELSE Append(rs, route)

autoRouteInfo(method, path, normalizedPath, options) ==
  [method |-> toLowerCase(method),
   path |-> normalizedPath,
   parameters |-> extractParametersFromPath(normalizedPath),
   responses |-> generateDefaultResponses,
   tags |-> IF "tags" \in DOMAIN options THEN options.tags
            ELSE <<generateTagFromPath(path)>>,
   summary |-> IF Truthy(Get(options, "summary")) THEN options.summary
               ELSE <<toUpperCase(method), " ">> \o path,
   description |-> Get(options, "description"),
   requestBody |-> generateRequestBodyFromMethod(method, options)]

normalizePath(openAPIPath) ==
  IF endsWith(openAPIPath, <<"/">>) /\ openAPIPath # <<"/">>
  THEN SubSeq(openAPIPath, 1, Len(openAPIPath) - 1)
  ELSE openAPIPath

\* an autoRegisterRoute that neither tests isRouteDocumented nor merges
autoRegisterRoutePush(rs, method, path, options) ==
  IF shouldExcludePath(path) THEN rs
  ELSE Append(rs, autoRouteInfo(method, path,
                    normalizePath(convertToOpenAPIPath(path, NoContext)), options))

autoRegisterRoute(rs, method, path, options) ==
  IF shouldExcludePath(path) THEN rs
  ELSE LET openAPIPath == convertToOpenAPIPath(path, NoContext)
           normalizedPath == normalizePath(openAPIPath)
       IN IF isRouteDocumented(rs, method, normalizedPath) THEN rs
          ELSE addRoute(rs, autoRouteInfo(method, path, normalizedPath, options))

registerRouteInfo(method, path, options) ==
  [method |-> toLowerCase(method),
   path |-> convertToOpenAPIPath(path, NoContext),
   parameters |-> IF "parameters" \in DOMAIN options THEN options.parameters ELSE <<>>,
   responses |-> IF "responses" \in DOMAIN options THEN options.responses
                 ELSE generateDefaultResponses,
   tags |-> IF "tags" \in DOMAIN options THEN options.tags
            ELSE <<generateTagFromPath(path)>>,
   requestBody |-> Get(options, "requestBody")]

\* a loop over the handlers in which the options met first win
RECURSIVE collectOptionsFirstWins(_, _)
collectOptionsFirstWins(handlers, routeOptions) ==
  IF handlers = <<>> THEN routeOptions
  ELSE collectOptionsFirstWins(Tail(handlers),
         IF Head(handlers).doc THEN Spread(Head(handlers).swaggerOptions, routeOptions)
         ELSE routeOptions)

\* the loop over the handlers of a wrapped verb call
RECURSIVE collectOptions(_, _)
collectOptions(handlers, routeOptions) ==
  IF handlers = <<>> THEN routeOptions
  ELSE collectOptions(Tail(handlers),
         IF Head(handlers).doc THEN Spread(routeOptions, Head(handlers).swaggerOptions)
         ELSE routeOptions)

\* ------------------------------------------------------------- document
\* an operation that renders the request body of every entry that stores one
operationAnyBody(route) ==
  LET base == [tags |-> route.tags, summary |-> Get(route, "summary"),
               parameters |-> route.parameters, responses |-> route.responses]
      described == IF Truthy(Get(route, "description"))
                   THEN Spread(base, [description |-> route.description])
                   ELSE base
  IN IF Truthy(Get(route, "requestBody"))
     THEN Spread(described, [requestBody |-> route.requestBody])
     ELSE IF route.method \in BodyMethods
          THEN Spread(described, [requestBody |-> GenericBody])
          ELSE described

operation(route) ==
  LET base == [tags |-> route.tags, summary |-> Get(route, "summary"),
               parameters |-> route.parameters, responses |-> route.responses]
      described == IF Truthy(Get(route, "description"))
                   THEN Spread(base, [description |-> route.description])
                   ELSE base
  IN IF route.method \in BodyMethods
     THEN Spread(described,
            [requestBody |-> IF Truthy(Get(route, "requestBody")) THEN route.requestBody
                             ELSE GenericBody])
     ELSE described

NoPaths == [k \in {} |-> Undefined]

\* a forEach that starts a new object for the path of every route
RECURSIVE buildPathsReplace(_, _)
buildPathsReplace(rs, paths) ==
  IF rs = <<>> THEN paths
  ELSE LET route == Head(rs)
       IN buildPathsReplace(Tail(rs),
            (route.path :> (route.method :> operation(route))) @@ paths)

\* the forEach over this.routes: paths[route.path][route.method] = operation
RECURSIVE buildPaths(_, _)
buildPaths(rs, paths) ==
  IF rs = <<>> THEN paths
  ELSE LET route == Head(rs)
           present == IF route.path \in DOMAIN paths THEN paths[route.path] ELSE NoPaths
       IN buildPaths(Tail(rs),
            (route.path :> ((route.method :> operation(route)) @@ present)) @@ paths)

NoInfo == [k \in {} |-> Undefined]

\* this.options.info?.title || this.options.title, and so for version and description
infoField(opts, k) ==
  LET given == IF "info" \in DOMAIN opts THEN opts.info ELSE NoInfo
  IN IF Truthy(Get(given, k)) THEN given[k] ELSE Get(opts, k)

\* ...(this.options.info?.contact && { contact }), and so for license
infoExtras(opts) ==
  LET given == IF "info" \in DOMAIN opts THEN opts.info ELSE NoInfo
  IN [k \in {"contact", "license"} \cap DOMAIN given |-> given[k]]

info(opts) ==
  Spread([title |-> infoField(opts, "title"),
          version |-> infoField(opts, "version"),
          description |-> infoField(opts, "description")],
         infoExtras(opts))

generateOpenAPISpec(rs, opts) ==
  [openapi |-> "3.0.0",
   info |-> info(opts),
   paths |-> buildPaths(rs, NoPaths)]

\* a generateOpenAPISpec that takes the routes out of the registry as it renders them
callGenerateOpenAPISpecDraining(rs, opts) ==
  [returned |-> generateOpenAPISpec(rs, opts), routes |-> <<>>, options |-> opts]

\* a call of generateOpenAPISpec: what it returns and what it leaves in this.routes and
\* this.options, neither of which it assigns
callGenerateOpenAPISpec(rs, opts) ==
  [returned |-> generateOpenAPISpec(rs, opts), routes |-> rs, options |-> opts]

\* ------------------------------------------------------------- inputs
Handler == [doc |-> FALSE, swaggerOptions |-> NoOptions]

documentRoute(options) == [doc |-> TRUE, swaggerOptions |-> options]

UserDoc ==
  [tags |-> <<<<"Users">>>>, summary |-> <<"Get user">>, description |-> <<"One user">>]

\* a second documentRoute middleware of the same chain: it gives a summary only
SummaryDoc == [summary |-> <<"Get one">>]

\* a request body of the caller's own
CustomBody == <<"application/json", "LoginBody">>

BodyDoc == [requestBody |-> CustomBody]

PA == <<"/", "a">>
PASlash == <<"/", "a", "/">>
PAId == <<"/", "a", "/", ":", "i">>
PDocX == <<"/", "d", "/", "x">>

IdParameter == pathParameter(<<"i">>)

\* the RouteInfo values handed to addRoute
AddRouteInputs ==
  { [method |-> "get", path |-> PA, parameters |-> <<>>, responses |-> NoResponses,
     tags |-> <<<<"test">>>>, summary |-> <<"Test route">>],
    [method |-> "get", path |-> PA, parameters |-> <<IdParameter>>,
     responses |-> generateDefaultResponses, tags |-> <<<<"Users">>>>,
     summary |-> Undefined, description |-> <<"One user">>] }

\* the (method, path, options) handed to registerRoute
RegisterInputs ==
  { <<"POST", PA, NoOptions>>,
    <<"get", PDocX, [tags |-> <<<<"docs">>>>, requestBody |-> CustomBody]>> }

\* the (method, path, handlers) of the verb calls made on the documented app
AppCalls ==
  { <<"get", PASlash, <<Handler>>>>,
    <<"get", PAId, <<Handler>>>>,
    <<"get", PAId, <<documentRoute(UserDoc), Handler>>>>,
    <<"get", PA, <<documentRoute(UserDoc), documentRoute(SummaryDoc), Handler>>>>,
    <<"post", PA, <<documentRoute(BodyDoc), Handler>>>>,
    <<"get", <<"/">>, <<Handler>>>>,
    <<"get", PDocX, <<Handler>>>>,
    <<"get", HandlerSource, <<>>>> }

\* the base paths a sub-router is mounted at
MountPaths == {PASlash}

\* the base paths a second router is mounted at on the sub-router
NestedMountPaths == {<<"/", "t">>}

\* the (method, path, handlers) of the verb calls made on that second router
NestedCalls ==
  { <<"get", <<"/", "n">>, <<Handler>>>> }

\* the (method, path, handlers) of the verb calls made on the sub-router
SubCalls ==
  { <<"get", <<"/">>, <<Handler>>>> }

\* the entries that readdirSync lists under the source path, in its order: stat is what
\* statSync does for the entry, readable what readFileSync does, routerName the name
\* bound to `new Hono()` in the text ("" when there is none) and routes the verb calls
\* on that name, line by line
RouterFile == <<"src", "/", "routes", "/", "r", ".ts">>
OtherFile == <<"src", "/", "routes", "/", "s", ".ts">>

RootRoute == [method |-> "get", path |-> <<"/">>, lineNumber |-> 3]
ItemRoute == [method |-> "post", path |-> <<"/", ":", "i">>, lineNumber |-> 4]

SourceTree ==
  << [filePath |-> RouterFile, stat |-> "file", readable |-> TRUE,
      routerName |-> "r", routes |-> <<RootRoute>>],
     [filePath |-> OtherFile, stat |-> "file", readable |-> TRUE,
      routerName |-> "", routes |-> <<>>] >>

\* ------------------------------------------------------------- file watcher
\* time is counted in ticks of 500 ms: the 1000 of `now - this.lastScanTime < 1000`
ScanInterval == 2

\* debounceMs: 1000
DefaultDebounceMs == 2

\* fileExtensions: ['.ts', '.js', '.tsx', '.jsx']
WatchedExtensions == {".ts", ".js", ".tsx", ".jsx"}

\* a FileWatcher after its constructor. watcher: this.watcher is not null; open: the
\* FSWatchers that watch() has opened and close() has not closed; debounceTimer: the
\* handle in this.debounceTimer, 0 for null; timers: the timeouts pending in the event
\* loop, each with the ticks left before it is due; sinceLastScan: Date.now() -
\* this.lastScanTime, counted up to ScanInterval; last: what the watcher did last
\* ("rescheduled": it cancelled a pending timeout and started another; "cancelled": it
\* stopped and cancelled a pending timeout)
NewFileWatcher(debounceMs) ==
  [debounceMs |-> debounceMs, watcher |-> FALSE, open |-> 0, debounceTimer |-> 0,
   timers |-> {}, sinceLastScan |-> ScanInterval, last |-> "constructed"]

\* ------------------------------------------------------------- analyzer
\* a JavaScript value with its typeof
Str(text) == [type |-> "string", text |-> text]
Num(text) == [type |-> "number", text |-> text]

\* the schema values of zod, by their class; null and undefined are NullSchema
NullSchema == [kind |-> "null"]
ZodString(checks) == [kind |-> "ZodString", checks |-> checks]
ZodNumber(checks) == [kind |-> "ZodNumber", checks |-> checks]
ZodBoolean == [kind |-> "ZodBoolean"]
ZodDate == [kind |-> "ZodDate"]
ZodNullable(innerType) == [kind |-> "ZodNullable", innerType |-> innerType]
ZodObject(shape) == [kind |-> "ZodObject", shape |-> shape, shapeThrows |-> FALSE]
ZodArray(type) == [kind |-> "ZodArray", type |-> type]
ZodOptional(innerType) == [kind |-> "ZodOptional", innerType |-> innerType]
ZodDefault(innerType, defaultValue) ==
  [kind |-> "ZodDefault", innerType |-> innerType, defaultValue |-> defaultValue,
   defaultThrows |-> FALSE]
ZodEnum(values) == [kind |-> "ZodEnum", values |-> values]
ZodUnion(options) == [kind |-> "ZodUnion", options |-> options, hasOptions |-> TRUE]
ZodLiteral(value) == [kind |-> "ZodLiteral", value |-> value]

\* schemas of a malformed internal state: shape() throws, defaultValue() throws, options
\* is undefined, a regex check has no regex
BrokenObject == [kind |-> "ZodObject", shape |-> <<>>, shapeThrows |-> TRUE]
BrokenDefault(innerType) ==
  [kind |-> "ZodDefault", innerType |-> innerType, defaultValue |-> Str("x"),
   defaultThrows |-> TRUE]
BrokenUnion == [kind |-> "ZodUnion", options |-> <<>>, hasOptions |-> FALSE]

\* the checks of a string or number schema
Check(kind) == [kind |-> kind]
ValueCheck(kind, value) == [kind |-> kind, value |-> value]
RegexCheck(source) == [kind |-> "regex", source |-> source, hasRegex |-> TRUE]
BrokenRegexCheck == [kind |-> "regex", source |-> "", hasRegex |-> FALSE]

Fallback == [type |-> "object"]

Returned(value) == [threw |-> FALSE, value |-> value]
Thrown == [threw |-> TRUE, value |-> Fallback]

\* for (const check of schema._def.checks) switch (check.kind) on a string schema
RECURSIVE stringSchema(_, _)
stringSchema(fragment, checks) ==
  IF checks = <<>> THEN Returned(fragment)
  ELSE LET check == Head(checks)
       IN IF check.kind = "email"
          THEN stringSchema(Spread(fragment, [format |-> "email"]), Tail(checks))
          ELSE IF check.kind = "url"
          THEN stringSchema(Spread(fragment, [format |-> "uri"]), Tail(checks))
          ELSE IF check.kind = "min"
          THEN stringSchema(Spread(fragment, [minLength |-> check.value]), Tail(checks))
          ELSE IF check.kind = "max"
          THEN stringSchema(Spread(fragment, [maxLength |-> check.value]), Tail(checks))
          ELSE IF check.kind = "regex"
          THEN (IF check.hasRegex
                THEN stringSchema(Spread(fragment, [pattern |-> check.source]),
                                  Tail(checks))
                ELSE Thrown)
          ELSE stringSchema(fragment, Tail(checks))

\* for (const check of schema._def.checks) switch (check.kind) on a number schema
RECURSIVE numberSchema(_, _)
numberSchema(fragment, checks) ==
  IF checks = <<>> THEN Returned(fragment)
  ELSE LET check == Head(checks)
       IN IF check.kind = "min"
          THEN numberSchema(Spread(fragment, [minimum |-> check.value]), Tail(checks))
          ELSE IF check.kind = "max"
          THEN numberSchema(Spread(fragment, [maximum |-> check.value]), Tail(checks))
          ELSE IF check.kind = "int"
          THEN numberSchema(Spread(fragment, [type |-> "integer"]), Tail(checks))
          ELSE numberSchema(fragment, Tail(checks))

\* a required list that leaves out the optional fields only
RECURSIVE requiredButOptional(_)
requiredButOptional(shape) ==
  IF shape = <<>> THEN <<>>
  ELSE (IF Head(shape)[2].kind # "ZodOptional" THEN <<Head(shape)[1]>> ELSE <<>>)
       \o requiredButOptional(Tail(shape))

\* if (!(value instanceof z.ZodOptional) && !(value instanceof z.ZodDefault))
RECURSIVE requiredFields(_)
requiredFields(shape) ==
  IF shape = <<>> THEN <<>>
  ELSE (IF Head(shape)[2].kind \notin {"ZodOptional", "ZodDefault"}
        THEN <<Head(shape)[1]>> ELSE <<>>)
       \o requiredFields(Tail(shape))

RECURSIVE zodToOpenAPI(_)
RECURSIVE tryZodToOpenAPI(_)

\* the recursive calls of a list: all return, or one of them throws
anyThrew(schemas) == \E i \in 1..Len(schemas) : zodToOpenAPI(schemas[i]).threw

\* for (const [key, value] of Object.entries(shape)) and the object fragment
objectSchema(shape) ==
  LET properties == [key \in {shape[i][1] : i \in 1..Len(shape)} |->
                       LET i == CHOOSE j \in 1..Len(shape) : shape[j][1] = key
                       IN zodToOpenAPI(shape[i][2]).value]
      base == [type |-> "object", properties |-> properties]
  IN IF anyThrew([i \in 1..Len(shape) |-> shape[i][2]]) THEN Thrown
     ELSE IF Len(requiredFields(shape)) > 0
          THEN Returned(Spread(base, [required |-> requiredFields(shape)]))
          ELSE Returned(base)

\* the body of the try block: the instanceof tests in their order; a schema of no
\* tested class leaves the block and meets the fallback after it
tryZodToOpenAPI(schema) ==
  IF schema.kind = "ZodString" THEN stringSchema([type |-> "string"], schema.checks)
  ELSE IF schema.kind = "ZodNumber" THEN numberSchema([type |-> "number"], schema.checks)
  ELSE IF schema.kind = "ZodBoolean" THEN Returned([type |-> "boolean"])
  ELSE IF schema.kind = "ZodObject"
  THEN (IF schema.shapeThrows THEN Thrown ELSE objectSchema(schema.shape))
  ELSE IF schema.kind = "ZodArray"
  THEN (IF zodToOpenAPI(schema.type).threw THEN Thrown
        ELSE Returned([type |-> "array", items |-> zodToOpenAPI(schema.type).value]))
  ELSE IF schema.kind = "ZodOptional" THEN zodToOpenAPI(schema.innerType)
  ELSE IF schema.kind = "ZodDefault"
  THEN (IF zodToOpenAPI(schema.innerType).threw \/ schema.defaultThrows THEN Thrown
        ELSE Returned(Spread(zodToOpenAPI(schema.innerType).value,
                             [default |-> schema.defaultValue])))
  ELSE IF schema.kind = "ZodEnum"
  THEN Returned([type |-> "string", enum |-> schema.values])
  ELSE IF schema.kind = "ZodUnion"
  THEN (IF ~schema.hasOptions \/ anyThrew(schema.options) THEN Thrown
        ELSE Returned([oneOf |-> [i \in 1..Len(schema.options) |->
                                   zodToOpenAPI(schema.options[i]).value]]))
  ELSE IF schema.kind = "ZodLiteral"
  THEN Returned([type |-> schema.value.type, enum |-> <<schema.value>>])
  ELSE Returned(Fallback)

\* a zodToOpenAPI without its try and catch
zodToOpenAPIUncaught(schema) ==
  IF schema = NullSchema THEN Returned(Fallback) ELSE tryZodToOpenAPI(schema)

\* HonoSwaggerAnalyzer.zodToOpenAPI: what it returns, or that it threw
zodToOpenAPI(schema) ==
  IF schema = NullSchema THEN Returned(Fallback)
  ELSE IF tryZodToOpenAPI(schema).threw THEN Returned(Fallback)
  ELSE tryZodToOpenAPI(schema)

\* no call of zodToOpenAPI yet
NoConversion == [schema |-> NullSchema, returned |-> <<>>]

\* ------------------------------------------------------------- state
Init ==
  /\ routes = <<>>
  /\ subApp = [hooks |-> <<>>, routes |-> <<>>]
  /\ nested = [mounts |-> <<>>, routes |-> <<>>]
  /\ autoScanEnabled = FALSE
  /\ middleware = FALSE
  /\ files = SourceTree
  /\ fileWatcher = FALSE
  /\ thisOptions = construct(UserOptions)
  /\ document = <<>>
  /\ fw = NewFileWatcher(DefaultDebounceMs)
  /\ analyzer = NoConversion

Fits(rs) == Len(rs) <= MaxRoutes

\* swagger.addRoute(route)
AddRoute ==
  \E route \in AddRouteInputs :
    /\ Fits(addRoute(routes, route))
    /\ routes' = addRoute(routes, route)
    /\ UNCHANGED <<subApp, nested, autoScanEnabled, middleware, files, fileWatcher,
                   thisOptions, document, fw, analyzer>>

\* swagger.registerRoute(method, path, options)
RegisterRoute ==
  \E input \in RegisterInputs :
    LET method == input[1]
        path == input[2]
        options == input[3]
        routeInfo == registerRouteInfo(method, path, options)
    IN /\ Fits(addRoute(routes, routeInfo))
       /\ routes' = addRoute(routes, routeInfo)
       /\ UNCHANGED <<subApp, nested, autoScanEnabled, middleware, files, fileWatcher,
                      thisOptions, document, fw, analyzer>>

\* the wrapper installed on app.get, app.post, ...: what it leaves in the registry and
\* what it calls, in order; an uncaught TypeError ends it (path.startsWith is not a
\* function when the first argument is a handler)
wrappedAppMethod(rs, method, path, handlers) ==
  LET routeOptions == collectOptions(handlers, NoOptions)
  IN IF isString(path)
     THEN [routes |-> autoRegisterRoute(rs, method, path, routeOptions),
           events |-> <<"autoRegisterRoute", "originalMethod">>]
     ELSE [routes |-> rs,
           events |-> <<"autoRegisterRoute", "TypeError">>]

\* app.get(path, ...handlers), app.post(path, ...handlers), ... on the documented app
AppVerb ==
  \E call \in AppCalls :
    LET result == wrappedAppMethod(routes, call[1], call[2], call[3])
    IN /\ Fits(result.routes)
       /\ routes' = result.routes
       /\ UNCHANGED <<subApp, nested, autoScanEnabled, middleware, files, fileWatcher,
                      thisOptions, document, fw, analyzer>>

\* app.route(path, subApp) on the documented app: the sub-router's verb methods are
\* wrapped once more; Hono's own route() then copies the sub-router's routes into the
\* app without going through the app's verb methods
Mount ==
  \E basePath \in MountPaths :
    /\ Len(subApp.hooks) < MaxHooks
    /\ subApp' = [subApp EXCEPT !.hooks = Append(@, basePath)]
    /\ UNCHANGED <<routes, nested, autoScanEnabled, middleware, files, fileWatcher,
                   thisOptions, document, fw, analyzer>>

\* the wrappers installed on the sub-router run from the last installed to the first,
\* each with its own basePath, and the innermost calls Hono's own method
RECURSIVE throughHooks(_, _, _, _, _)
throughHooks(rs, hooks, method, path, routeOptions) ==
  IF hooks = <<>> THEN rs
  ELSE throughHooks(
         autoRegisterRoute(rs, method, hooks[Len(hooks)] \o path, routeOptions),
         SubSeq(hooks, 1, Len(hooks) - 1), method, path, routeOptions)

wrappedSubAppMethod(rs, hooks, method, path, handlers) ==
  [routes |-> throughHooks(rs, hooks, method, path, collectOptions(handlers, NoOptions)),
   events |-> [i \in 1..Len(hooks) |-> "autoRegisterRoute"] \o <<"originalMethod">>]

\* Hono's own verb method: the route joins the router's route list, its method in upper case
honoAddRoute(honoRoutes, method, path) ==
  Append(honoRoutes, [method |-> toUpperCase(method), path |-> path])

\* subApp.get(path, ...handlers), ... on the sub-router, wrapped or not
SubVerb ==
  \E call \in SubCalls :
    LET result == wrappedSubAppMethod(routes, subApp.hooks, call[1], call[2], call[3])
    IN /\ Len(subApp.routes) < MaxSubRoutes
       /\ Fits(result.routes)
       /\ routes' = result.routes
       /\ subApp' = [subApp EXCEPT !.routes = honoAddRoute(@, call[1], call[2])]
       /\ UNCHANGED <<nested, autoScanEnabled, middleware, files, fileWatcher,
                      thisOptions, document, fw, analyzer>>

\* Hono's own route(): the routes the mounted router has at that moment join the route list
\* of the router it is mounted on, under the base path
honoRoute(honoRoutes, basePath, mounted) ==
  honoRoutes \o [i \in 1..Len(mounted) |->
                   [method |-> mounted[i].method, path |-> basePath \o mounted[i].path]]

\* subApp.route(path, other) on the sub-router: only the route method of the documented
\* app is overridden, so this is Hono's own route() and installs no wrapper; parent keeps
\* the base paths the sub-router was wrapped with when the mount was made
MountNested ==
  \E basePath \in NestedMountPaths :
    /\ Len(nested.mounts) < MaxNestedMounts
    /\ nested' = [nested EXCEPT !.mounts =
                    Append(@, [basePath |-> basePath, parent |-> subApp.hooks])]
    /\ subApp' = [subApp EXCEPT !.routes = honoRoute(@, basePath, nested.routes)]
    /\ UNCHANGED <<routes, autoScanEnabled, middleware, files, fileWatcher,
                   thisOptions, document, fw, analyzer>>

\* other.get(path, ...handlers), ... on the second router: no wrapper was installed on
\* it, so this is Hono's own verb method
NestedVerb ==
  \E call \in NestedCalls :
    /\ Len(nested.routes) < MaxNestedRoutes
    /\ nested' = [nested EXCEPT !.routes = honoAddRoute(@, call[1], call[2])]
    /\ UNCHANGED <<routes, subApp, autoScanEnabled, middleware, files, fileWatcher,
                   thisOptions, document, fw, analyzer>>

SubApplicationDescription == <<"Auto-generated from sub-application">>

generatedOptions(method, fullPath, description) ==
  [tags |-> <<generateTagFromPath(fullPath)>>,
   summary |-> <<toUpperCase(method), " ">> \o fullPath,
   description |-> description,
   requestBody |-> generateRequestBodyFromMethod(method, NoOptions)]

\* the forEach over subApp.routes
RECURSIVE extractAndRegisterExistingRoutes(_, _, _)
extractAndRegisterExistingRoutes(rs, basePath, honoRoutes) ==
  IF honoRoutes = <<>> THEN rs
  ELSE LET route == Head(honoRoutes)
           fullPath == basePath \o route.path
           openAPIPath == convertToOpenAPIPath(fullPath, NoContext)
       IN extractAndRegisterExistingRoutes(
            IF route.path # <<>>
            THEN autoRegisterRoute(rs, route.method, openAPIPath,
                   generatedOptions(route.method, fullPath, SubApplicationDescription))
            ELSE rs,
            basePath, Tail(honoRoutes))

\* swagger.registerSubApp(basePath, subApp)
RegisterSubApp ==
  \E basePath \in MountPaths :
    LET result == extractAndRegisterExistingRoutes(routes, basePath, subApp.routes)
    IN /\ Len(subApp.hooks) < MaxHooks
       /\ Fits(result)
       /\ subApp' = [subApp EXCEPT !.hooks = Append(@, basePath)]
       /\ routes' = result
       /\ UNCHANGED <<nested, autoScanEnabled, middleware, files, fileWatcher,
                      thisOptions, document, fw, analyzer>>

\* fileName.replace(/\.(ts|js|tsx|jsx)$/, '')
Extensions == {".ts", ".js", ".tsx", ".jsx"}

generateBasePathFromFilePath(filePath) ==
  LET pathParts == split(filePath)
      fileName == pathParts[Len(pathParts)]
      fileNameWithoutExt ==
        IF fileName # <<>> /\ fileName[Len(fileName)] \in Extensions
        THEN SubSeq(fileName, 1, Len(fileName) - 1)
        ELSE fileName
  IN <<"/", "api", "/">> \o fileNameWithoutExt

extname(filePath) == filePath[Len(filePath)]

\* getAllFiles: statSync is called on every entry and is not guarded
getAllFiles(fs) ==
  IF \E i \in 1..Len(fs) : fs[i].stat = "error"
  THEN [threw |-> TRUE, files |-> <<>>]
  ELSE [threw |-> FALSE, files |-> fs]

\* extractRouterFromFile returns null (here: FALSE in found) when reading throws or no
\* router is created in the text
extractRouterFromFile(file) ==
  IF file.readable /\ file.routerName # ""
  THEN [found |-> TRUE,
        info |-> [filePath |-> file.filePath, routerName |-> file.routerName,
                  routes |-> file.routes, exportType |-> "named"]]
  ELSE [found |-> FALSE]

RECURSIVE collectRouters(_)
collectRouters(fileList) ==
  IF fileList = <<>> THEN <<>>
  ELSE LET file == Head(fileList)
           routerInfo == extractRouterFromFile(file)
       IN (IF extname(file.filePath) \in Extensions /\ routerInfo.found
           THEN <<routerInfo.info>> ELSE <<>>)
          \o collectRouters(Tail(fileList))

\* RouterScanner.scanForRouters: the routers it returns, or the exception it lets through
scanForRouters(fs) ==
  LET all == getAllFiles(fs)
  IN IF all.threw THEN [threw |-> TRUE, routers |-> <<>>]
     ELSE [threw |-> FALSE, routers |-> collectRouters(all.files)]

fileDescription(filePath) == <<"Auto-generated from ">> \o filePath

RECURSIVE registerRouterRoutes(_, _, _, _)
registerRouterRoutes(rs, filePath, basePath, fileRoutes) ==
  IF fileRoutes = <<>> THEN rs
  ELSE LET route == Head(fileRoutes)
           fullPath == basePath \o route.path
       IN registerRouterRoutes(
            autoRegisterRoute(rs, route.method, fullPath,
              generatedOptions(route.method, fullPath, fileDescription(filePath))),
            filePath, basePath, Tail(fileRoutes))

RECURSIVE registerRouters(_, _)
registerRouters(rs, routers) ==
  IF routers = <<>> THEN rs
  ELSE LET router == Head(routers)
       IN registerRouters(
            registerRouterRoutes(rs, router.filePath,
              generateBasePathFromFilePath(router.filePath), router.routes),
            Tail(routers))

\* a scan that empties the registry before it registers what it found
scanAndRegisterRoutersFresh(rs, fs, enabled) ==
  IF ~enabled THEN rs
  ELSE IF scanForRouters(fs).threw THEN rs
  ELSE registerRouters(<<>>, scanForRouters(fs).routers)

\* enabled: this.autoScanEnabled || this.fileWatcher; an exception of the scan is caught
\* and logged
scanAndRegisterRouters(rs, fs, enabled) ==
  IF ~enabled THEN rs
  ELSE IF scanForRouters(fs).threw THEN rs
  ELSE registerRouters(rs, scanForRouters(fs).routers)

\* swagger.enableAutoScan(srcPath)
EnableAutoScan ==
  /\ Fits(scanAndRegisterRouters(routes, files, TRUE))
  /\ autoScanEnabled' = TRUE
  /\ routes' = scanAndRegisterRouters(routes, files, TRUE)
  /\ UNCHANGED <<subApp, nested, middleware, files, fileWatcher,
                 thisOptions, document, fw, analyzer>>

\* swagger.scanAndRegisterRouters()
ScanAndRegisterRouters ==
  /\ Fits(scanAndRegisterRouters(routes, files, autoScanEnabled \/ fileWatcher))
  /\ routes' = scanAndRegisterRouters(routes, files, autoScanEnabled \/ fileWatcher)
  /\ UNCHANGED <<subApp, nested, autoScanEnabled, middleware, files, fileWatcher,
                 thisOptions, document, fw, analyzer>>

\* the initial scan of FileWatcher.startWatching and the scan of its debounce timer: the
\* routers go to onRoutersChanged, which runs scanAndRegisterRouters; an exception of
\* the scan goes to onError
scanRouters(rs, fs) ==
  IF scanForRouters(fs).threw THEN rs ELSE scanAndRegisterRouters(rs, fs, TRUE)

\* swagger.enableFileWatching(srcPath); a second call returns at once
EnableFileWatching ==
  /\ ~fileWatcher
  /\ Fits(scanRouters(routes, files))
  /\ fileWatcher' = TRUE
  /\ routes' = scanRouters(routes, files)
  /\ UNCHANGED <<subApp, nested, autoScanEnabled, middleware, files,
                 thisOptions, document, fw, analyzer>>

\* swagger.disableFileWatching()
DisableFileWatching ==
  /\ fileWatcher
  /\ fileWatcher' = FALSE
  /\ UNCHANGED <<routes, subApp, nested, autoScanEnabled, middleware, files,
                 thisOptions, document, fw, analyzer>>

\* the debounce timer of the running watcher fires
WatcherScan ==
  /\ fileWatcher
  /\ Fits(scanRouters(routes, files))
  /\ routes' = scanRouters(routes, files)
  /\ UNCHANGED <<subApp, nested, autoScanEnabled, middleware, files, fileWatcher,
                 thisOptions, document, fw, analyzer>>

\* the texts the router file goes through: a route call is added to it or removed from it
RouterFileRoutes == {<<RootRoute>>, <<RootRoute, ItemRoute>>}

EditFile ==
  \E fileRoutes \in RouterFileRoutes :
    /\ fileRoutes # files[1].routes
    /\ files' = [files EXCEPT ![1].routes = fileRoutes]
    /\ UNCHANGED <<routes, subApp, nested, autoScanEnabled, middleware, fileWatcher,
                   thisOptions, document, fw, analyzer>>

\* what statSync and readFileSync do for the other entry: it is a file that can be read,
\* a file whose reading throws, or an entry whose statSync throws
EntryStates == {<<"file", TRUE>>, <<"file", FALSE>>, <<"error", FALSE>>}

TouchEntry ==
  \E entry \in EntryStates :
    /\ entry # <<files[2].stat, files[2].readable>>
    /\ files' = [files EXCEPT ![2].stat = entry[1], ![2].readable = entry[2]]
    /\ UNCHANGED <<routes, subApp, nested, autoScanEnabled, middleware, fileWatcher,
                   thisOptions, document, fw, analyzer>>

\* ------------------------------------------------------------- file watcher steps
clearTimeout(timers, handle) == {t \in timers : t.handle # handle}

\* the handle setTimeout returns: one no pending timeout has and no field still holds
newHandle(w) ==
  CHOOSE h \in 1..(Cardinality(w.timers) + 2) :
    /\ h # w.debounceTimer /\ \A t \in w.timers : t.handle # h
    /\ \A g \in 1..(h - 1) : g = w.debounceTimer \/ \E t \in w.timers : t.handle = g

\* a handleFileChange that starts a timer without cancelling the pending one
handleFileChangeNoClear(w, filename) ==
  IF extname(filename) \notin WatchedExtensions THEN [w EXCEPT !.last = "ignored"]
  ELSE [w EXCEPT !.timers = @ \cup {[handle |-> newHandle(w), delay |-> w.debounceMs]},
                 !.debounceTimer = newHandle(w),
                 !.last = "debounced"]

handleFileChange(w, filename) ==
  IF extname(filename) \notin WatchedExtensions THEN [w EXCEPT !.last = "ignored"]
  ELSE LET pending == IF w.debounceTimer # 0 THEN clearTimeout(w.timers, w.debounceTimer)
                      ELSE w.timers
       IN [w EXCEPT !.timers = pending \cup {[handle |-> newHandle(w),
                                              delay |-> w.debounceMs]},
                    !.debounceTimer = newHandle(w),
                    !.last = IF pending # w.timers THEN "rescheduled" ELSE "debounced"]

\* a stopWatching that closes the watcher and leaves the debounce timer pending
stopWatchingKeepTimer(w) ==
  [w EXCEPT !.watcher = FALSE,
            !.open = IF w.watcher THEN @ - 1 ELSE @,
            !.last = "stopped"]

stopWatching(w) ==
  [w EXCEPT !.watcher = FALSE,
            !.open = IF w.watcher THEN @ - 1 ELSE @,
            !.timers = IF w.debounceTimer # 0 THEN clearTimeout(@, w.debounceTimer) ELSE @,
            !.debounceTimer = 0,
            !.last = IF \E t \in w.timers : t.handle = w.debounceTimer THEN "cancelled"
                     ELSE "stopped"]

\* FileWatcher.scanRouters on the watcher itself: it returns at once when the last scan
\* is less than ScanInterval old; else it scans, and the routers go to onRoutersChanged
\* or the exception of the scan goes to onError
scanRoutersAt(w, fs) ==
  IF w.sinceLastScan < ScanInterval THEN [w EXCEPT !.last = "skipped"]
  ELSE [w EXCEPT !.sinceLastScan = 0,
                 !.last = IF scanForRouters(fs).threw THEN "failed" ELSE "notified"]

\* startWatching: nothing on a running watcher; else watch() opens an FSWatcher, or
\* throws, and the initial scan follows
startWatching(w, fs, watchThrows) ==
  IF w.watcher THEN [w EXCEPT !.last = "running"]
  ELSE IF watchThrows THEN [w EXCEPT !.last = "failed"]
  ELSE scanRoutersAt([w EXCEPT !.watcher = TRUE, !.open = @ + 1], fs)

\* the names fs.watch reports: two with a watched extension and one without
ChangedFiles == {RouterFile, OtherFile, <<"src", "/", "notes", ".md">>}

\* fileWatcher.startWatching(): a scan that notified ran the onRoutersChanged callback
StartWatching ==
  \E watchThrows \in BOOLEAN :
    /\ fw' = startWatching(fw, files, watchThrows)
    /\ routes' = IF ~fw.watcher /\ startWatching(fw, files, watchThrows).last = "notified"
                 THEN scanRouters(routes, files)
                 ELSE routes
    /\ UNCHANGED <<subApp, nested, autoScanEnabled, middleware, files, fileWatcher,
                   thisOptions, document, analyzer>>

\* fileWatcher.stopWatching()
StopWatching ==
  /\ fw' = stopWatching(fw)
  /\ UNCHANGED <<routes, subApp, nested, autoScanEnabled, middleware, files, fileWatcher,
                 thisOptions, document, analyzer>>

\* an open FSWatcher emits 'change'
ChangeEvent ==
  \E filename \in ChangedFiles :
    /\ fw.open > 0
    /\ fw' = handleFileChange(fw, filename)
    /\ UNCHANGED <<routes, subApp, nested, autoScanEnabled, middleware, files, fileWatcher,
                   thisOptions, document, analyzer>>

\* the event loop runs a timeout that is due: the callback of handleFileChange
Timeout ==
  \E t \in fw.timers :
    LET scanned == scanRoutersAt([fw EXCEPT !.timers = @ \ {t}], files)
    IN /\ t.delay = 0
       /\ fw' = scanned
       /\ routes' = IF scanned.last = "notified" THEN scanRouters(routes, files)
                    ELSE routes
       /\ UNCHANGED <<subApp, nested, autoScanEnabled, middleware, files, fileWatcher,
                      thisOptions, document, analyzer>>

\* 500 ms pass
Tick ==
  /\ fw' = [fw EXCEPT
             !.timers = {[t EXCEPT !.delay = IF @ > 0 THEN @ - 1 ELSE 0] : t \in fw.timers},
             !.sinceLastScan = IF @ < ScanInterval THEN @ + 1 ELSE @]
  /\ UNCHANGED <<routes, subApp, nested, autoScanEnabled, middleware, files, fileWatcher,
                 thisOptions, document, analyzer>>

\* swagger.generateOpenAPISpec(): document holds the last document returned
GenerateOpenAPISpec ==
  LET call == callGenerateOpenAPISpec(routes, thisOptions)
  IN /\ document' = <<call.returned>>
     /\ routes' = call.routes
     /\ thisOptions' = call.options
     /\ UNCHANGED <<subApp, nested, autoScanEnabled, middleware, files, fileWatcher, fw, analyzer>>

\* the requests served by the app once the init() middleware is installed
Requests ==
  { [method |-> "GET", path |-> <<"/", "a", "/", "7">>, routePath |-> PAId,
     params |-> <<<<<<"i">>, <<"7">>>>>>, query |-> <<>>,
     status |-> "200", contentType |-> "application/json"],
    [method |-> "GET", path |-> PA, routePath |-> Undefined,
     params |-> <<>>, query |-> <<<<"q">>>>,
     status |-> "404", contentType |-> "text/plain"],
    [method |-> "GET", path |-> OptionsRoute, routePath |-> OptionsRoute,
     params |-> <<>>, query |-> <<>>,
     status |-> "200", contentType |-> "text/html"] }

\* path.match(/\{(\w+)\}/g), each match without its braces
RECURSIVE braceParams(_, _)
braceParams(s, i) ==
  IF i > Len(s) THEN <<>>
  ELSE IF /\ s[i] = "{"
          /\ wordRun(s, i + 1) > 0
          /\ i + wordRun(s, i + 1) + 1 <= Len(s)
          /\ s[i + wordRun(s, i + 1) + 1] = "}"
       THEN <<SubSeq(s, i + 1, i + wordRun(s, i + 1))>>
            \o braceParams(s, i + wordRun(s, i + 1) + 2)
       ELSE braceParams(s, i + 1)

queryParameter(name) == [name |-> name, in |-> "query", required |-> FALSE, type |-> "string"]

RECURSIVE addQueryParameters(_, _)
addQueryParameters(parameters, query) ==
  IF query = <<>> THEN parameters
  ELSE addQueryParameters(
         IF \E i \in 1..Len(parameters) : parameters[i].name = Head(query)
         THEN parameters
         ELSE Append(parameters, queryParameter(Head(query))),
         Tail(query))

extractParameters(path, c) ==
  LET names == braceParams(path, 1)
  IN addQueryParameters([i \in 1..Len(names) |-> pathParameter(names[i])], c.query)

getStatusDescription(status) ==
  CASE status = "200" -> "OK"
    [] status = "201" -> "Created"
    [] status = "204" -> "No Content"
    [] status = "400" -> "Bad Request"
    [] status = "401" -> "Unauthorized"
    [] status = "403" -> "Forbidden"
    [] status = "404" -> "Not Found"
    [] status = "500" -> "Internal Server Error"
    [] OTHER -> "Success"

generateResponsesFromContext(c) ==
  (c.status :> response(getStatusDescription(c.status), c.contentType,
                        IF c.contentType = "application/json" THEN "object" ELSE "string"))
  @@ generateDefaultResponses

getRoutePattern(c) == IF Truthy(c.routePath) THEN c.routePath ELSE c.path

extractRouteInfoFromContext(c) ==
  LET method == toLowerCase(c.method)
      openAPIPath == convertToOpenAPIPath(getRoutePattern(c), [req |-> TRUE, params |-> c.params])
  IN [method |-> method,
      path |-> openAPIPath,
      parameters |-> extractParameters(openAPIPath, c),
      responses |-> generateResponsesFromContext(c),
      tags |-> <<generateTagFromPath(openAPIPath)>>,
      summary |-> <<toUpperCase(method), " ">> \o openAPIPath]

capture(rs, c) ==
  IF ~isRouteDocumented(rs, toLowerCase(c.method), c.path) /\ ~shouldExcludePath(c.path)
  THEN addRoute(rs, extractRouteInfoFromContext(c))
  ELSE rs

OpenAPIJson == <<"/", "openapi", ".", "json">>

\* swagger.init(): the two routes of the viewer are registered through the wrapped app.get
init(rs) ==
  LET first == wrappedAppMethod(rs, "get", OptionsRoute, <<Handler>>)
      second == wrappedAppMethod(first.routes, "get", OptionsRoute \o OpenAPIJson, <<Handler>>)
  IN [routes |-> second.routes, events |-> first.events \o second.events]

InitMiddleware ==
  /\ routes' = init(routes).routes
  /\ middleware' = TRUE
  /\ UNCHANGED <<subApp, nested, autoScanEnabled, files, fileWatcher,
                 thisOptions, document, fw, analyzer>>

\* the middleware returned by init(), after next() has served a request
Capture ==
  \E c \in Requests :
    /\ middleware
    /\ Fits(capture(routes, c))
    /\ routes' = capture(routes, c)
    /\ UNCHANGED <<subApp, nested, autoScanEnabled, middleware, files, fileWatcher,
                   thisOptions, document, fw, analyzer>>

Next ==
  \/ AddRoute
  \/ RegisterRoute
  \/ AppVerb
  \/ Mount
  \/ SubVerb
  \/ RegisterSubApp
  \/ EnableAutoScan
  \/ ScanAndRegisterRouters
  \/ InitMiddleware
  \/ Capture

Spec == Init /\ [][Next]_vars

\* the documented app, a sub-router mounted on it and a second router mounted on the
\* sub-router
NextMount ==
  \/ AppVerb
  \/ Mount
  \/ SubVerb
  \/ MountNested
  \/ NestedVerb

SpecMount == Init /\ [][NextMount]_vars

\* the documented app over a source tree that changes, scanned on demand and by the
\* file watcher
NextScan ==
  \/ AddRoute
  \/ RegisterRoute
  \/ AppVerb
  \/ EnableAutoScan
  \/ ScanAndRegisterRouters
  \/ EnableFileWatching
  \/ DisableFileWatching
  \/ WatcherScan
  \/ EditFile
  \/ TouchEntry

SpecScan == Init /\ [][NextScan]_vars

\* the option objects handed to new HonoSwagger(app, options)
Contact == [name |-> "API Support", email |-> "support@example.com"]
License == [name |-> "MIT", url |-> "https://opensource.org/licenses/MIT"]

UserOptionSets ==
  { UserOptions,
    Spread(UserOptions, [title |-> <<"Custom API">>, version |-> <<"2.0.0">>,
                         description |-> <<"A custom API description">>,
                         info |-> [contact |-> Contact, license |-> License]]),
    Spread(UserOptions, [title |-> <<"Custom API">>,
                         info |-> [title |-> <<"Info title">>, contact |-> Contact]]),
    Spread(UserOptions, [title |-> Undefined, info |-> [version |-> <<"3.1.0">>]]) }

InitDoc ==
  /\ routes = <<>>
  /\ subApp = [hooks |-> <<>>, routes |-> <<>>]
  /\ nested = [mounts |-> <<>>, routes |-> <<>>]
  /\ autoScanEnabled = FALSE
  /\ middleware = FALSE
  /\ files = SourceTree
  /\ fileWatcher = FALSE
  /\ thisOptions \in {construct(userOptions) : userOptions \in UserOptionSets}
  /\ document = <<>>
  /\ fw = NewFileWatcher(DefaultDebounceMs)
  /\ analyzer = NoConversion

\* the registry written by its operations and rendered on demand
NextDoc ==
  \/ AddRoute
  \/ RegisterRoute
  \/ AppVerb
  \/ GenerateOpenAPISpec

SpecDoc == InitDoc /\ [][NextDoc]_vars

\* ------------------------------------------------------------- properties
\* every RouteInfo that addRoute and registerRoute hand to the registry
AllRouteInfos ==
  AddRouteInputs \cup {registerRouteInfo(input[1], input[2], input[3]) : input \in RegisterInputs}

RequiredFields == {"parameters", "responses", "tags"}
OptionalFields == {"summary", "description", "requestBody"}

\* an empty array, an empty object, an empty string, undefined or a missing key
IsEmptyField(r, k) ==
  IF k \in OptionalFields THEN ~Truthy(Get(r, k))
  ELSE IF k = "responses" THEN r[k] = NoResponses
  ELSE r[k] = <<>>

UniquePairs ==
  \A i, j \in 1..Len(routes) : Key(routes[i]) = Key(routes[j]) => i = j

\* C1: after any sequence of operations the registry holds no two entries with the same
\* (method, path) pair, and no step adds an entry for a pair that was already present.
C1_UniquePairs ==
  /\ []UniquePairs
  /\ [][\A i \in (Len(routes) + 1)..Len(routes') : Key(routes'[i]) \notin Keys(routes)]_vars

\* a second registration of get /a has merged into the first, next to another entry
C1_Witness ==
  /\ Len(routes) >= 2
  /\ \E i \in 1..Len(routes) :
       /\ Key(routes[i]) = <<"get", PA>>
       /\ "description" \in DOMAIN routes[i]
       /\ Get(routes[i], "summary") = <<"Test route">>

\* C2: when addRoute(R) finds an entry E with R's (method, path), every field of the
\* result is R's value where R's value is non-empty and E's value otherwise.
C2_MergeKeepsExisting ==
  [][\A R \in AllRouteInfos :
       (findIndex(routes, R) > 0 /\ routes' = addRoute(routes, R)) =>
         LET i == findIndex(routes, R)
         IN /\ \A k \in RequiredFields :
                 routes'[i][k] = IF IsEmptyField(R, k) THEN routes[i][k] ELSE R[k]
            /\ \A k \in OptionalFields :
                 Get(routes'[i], k) = IF IsEmptyField(R, k) THEN Get(routes[i], k) ELSE R[k]
    ]_vars

\* C3: in every reachable registry, addRoute(R) followed by addRoute(R) gives the registry
\* that a single addRoute(R) gives: same entries, same order, same field values.
C3_AddRouteIdempotent ==
  \A R \in AllRouteInfos : addRoute(addRoute(routes, R), R) = addRoute(routes, R)

\* addRoute(R) has merged R into an entry that another registration created, and a
\* further addRoute(R) changes nothing
C3_Witness ==
  \E R \in AddRouteInputs :
    /\ findIndex(routes, R) > 0
    /\ DOMAIN routes[findIndex(routes, R)] # DOMAIN R
    /\ DOMAIN R \subseteq DOMAIN routes[findIndex(routes, R)]
    /\ \A k \in DOMAIN R : routes[findIndex(routes, R)][k] = R[k]
    /\ addRoute(routes, R) = routes

\* C4: no entry of the registry and no path of the rendered document starts with the
\* documentation-UI route or with an excludePaths prefix.
C4_ExcludedNeverStored ==
  /\ \A i \in 1..Len(routes) : ~shouldExcludePath(routes[i].path)
  /\ \A path \in DOMAIN generateOpenAPISpec(routes, thisOptions).paths : ~shouldExcludePath(path)

\* the canonical form of a raw path: every segment ':name' becomes '{name}' and the
\* trailing slashes go, except for the root path
canonicalSegment(segment) ==
  IF Len(segment) > 1 /\ segment[1] = ":" THEN <<"{">> \o Tail(segment) \o <<"}">>
  ELSE segment

RECURSIVE join(_)
join(segments) ==
  IF Len(segments) = 1 THEN segments[1]
  ELSE segments[1] \o <<"/">> \o join(Tail(segments))

RECURSIVE stripTrailingSlashes(_)
stripTrailingSlashes(path) ==
  IF Len(path) > 1 /\ path[Len(path)] = "/"
  THEN stripTrailingSlashes(SubSeq(path, 1, Len(path) - 1))
  ELSE path

Canonical(raw) ==
  stripTrailingSlashes(join([i \in 1..Len(split(raw)) |-> canonicalSegment(split(raw)[i])]))

\* the raw full paths that a scan registers
ScannedPaths ==
  {generateBasePathFromFilePath(router.filePath) \o router.routes[r].path :
     <<router, r>> \in
       {<<router, r>> \in {scanForRouters(files).routers[f] :
                              f \in 1..Len(scanForRouters(files).routers)} \X (1..2) :
          r <= Len(router.routes)}}

\* C5: every entry that a wrapped verb call or a scan adds is stored under the canonical
\* form of its raw path, whichever of the two discovered it.
C5_CanonicalPaths ==
  /\ \A call \in AppCalls :
       isString(call[2]) =>
         LET result == wrappedAppMethod(routes, call[1], call[2], call[3]).routes
         IN \A i \in (Len(routes) + 1)..Len(result) : result[i].path = Canonical(call[2])
  /\ \A call \in SubCalls :
       LET result == wrappedSubAppMethod(routes, subApp.hooks, call[1], call[2], call[3]).routes
       IN \A i \in (Len(routes) + 1)..Len(result) :
            \E h \in 1..Len(subApp.hooks) : result[i].path = Canonical(subApp.hooks[h] \o call[2])
  /\ LET result == scanAndRegisterRouters(routes, files, TRUE)
     IN \A i \in (Len(routes) + 1)..Len(result) :
          \E raw \in ScannedPaths : result[i].path = Canonical(raw)

\* C6: a decorated verb call for a pair that is already in the registry leaves the
\* metadata of its documentRoute options in the existing entry.
C6_RediscoveryMerges ==
  \A call \in AppCalls :
    LET routeOptions == collectOptions(call[3], NoOptions)
        result == wrappedAppMethod(routes, call[1], call[2], call[3]).routes
    IN (/\ isString(call[2])
        /\ DOMAIN routeOptions # {}
        /\ isRouteDocumented(routes, call[1], Canonical(call[2])))
       => \E i \in 1..Len(result) :
            /\ Key(result[i]) = <<call[1], Canonical(call[2])>>
            /\ \A k \in DOMAIN routeOptions : Get(result[i], k) = routeOptions[k]

\* C7: addRoute appends a route with a new pair after all existing entries and merges a
\* route with a known pair where its entry stands, leaving every other entry as it was;
\* no step of any operation moves or removes an entry.
C7_FirstSeenOrder ==
  /\ [](\A R \in AllRouteInfos :
          LET result == addRoute(routes, R)
              i == findIndex(routes, R)
          IN IF i = 0
             THEN /\ Len(result) = Len(routes) + 1
                  /\ result[Len(result)] = R
                  /\ \A j \in 1..Len(routes) : result[j] = routes[j]
             ELSE /\ Len(result) = Len(routes)
                  /\ Key(result[i]) = Key(routes[i])
                  /\ \A j \in 1..Len(routes) : j # i => result[j] = routes[j])
  /\ [][/\ Len(routes') >= Len(routes)
        /\ \A i \in 1..Len(routes) : Key(routes'[i]) = Key(routes[i])]_vars

\* the first entry has been merged into (it has the description of one registration and
\* the summary of another) and still stands before a later entry
C7_Witness ==
  /\ Len(routes) >= 2
  /\ Key(routes[1]) = <<"get", PA>>
  /\ "description" \in DOMAIN routes[1]
  /\ Get(routes[1], "summary") = <<"Test route">>
  /\ Key(routes[2]) # Key(routes[1])

SameEntries(a, b) ==
  /\ Len(a) = Len(b)
  /\ \A i \in 1..Len(a) : \E j \in 1..Len(b) : a[i] = b[j]
  /\ \A j \in 1..Len(b) : \E i \in 1..Len(a) : a[i] = b[j]

\* C8 as stated: for any two routes A and B, addRoute(A); addRoute(B) and
\* addRoute(B); addRoute(A) give the same entries with the same field values.
C8_AddRouteCommutes ==
  \A A, B \in AllRouteInfos :
    SameEntries(addRoute(addRoute(routes, A), B), addRoute(addRoute(routes, B), A))

\* C8 as amended: for any two routes A and B with different (method, path) pairs,
\* addRoute(A); addRoute(B) and addRoute(B); addRoute(A) give the same entries with the
\* same field values.
C8_CommutesOnDistinctPairs ==
  \A A, B \in AllRouteInfos :
    Key(A) # Key(B) =>
      SameEntries(addRoute(addRoute(routes, A), B), addRoute(addRoute(routes, B), A))

\* post /a was registered before get /a, the order opposite to the one of the inputs
C8_Witness ==
  /\ Len(routes) >= 2
  /\ Key(routes[1]) = <<"post", PA>>
  /\ routes[2] \in AddRouteInputs

\* C9: every call of a wrapped verb method records the route and then calls the original
\* method, once.
C9_OriginalInvokedOnce ==
  /\ \A call \in AppCalls :
       wrappedAppMethod(routes, call[1], call[2], call[3]).events
         = <<"autoRegisterRoute", "originalMethod">>
  /\ \A call \in SubCalls :
       LET events == wrappedSubAppMethod(routes, subApp.hooks, call[1], call[2], call[3]).events
       IN /\ events[Len(events)] = "originalMethod"
          /\ \A i \in 1..(Len(events) - 1) : events[i] = "autoRegisterRoute"

\* the first segment of the path that is neither empty nor a placeholder
firstMeaningfulSegment(path) ==
  LET segments == SelectSeq(split(path),
                            LAMBDA s : s # <<>> /\ s[1] # "{" /\ s[1] # ":")
  IN IF Len(segments) > 0 THEN segments[1] ELSE DefaultTag

\* C10: an undecorated verb call that adds an entry gives it the summary '<VERB> <path>'
\* and, as its single tag, the first meaningful segment of the path.
C10_UndecoratedEntry ==
  \A call \in AppCalls :
    LET result == wrappedAppMethod(routes, call[1], call[2], call[3]).routes
    IN (/\ isString(call[2])
        /\ DOMAIN collectOptions(call[3], NoOptions) = {}
        /\ Len(result) = Len(routes) + 1)
       => /\ result[Len(result)].summary = <<toUpperCase(call[1]), " ">> \o call[2]
          /\ result[Len(result)].tags = <<firstMeaningfulSegment(call[2])>>

\* the handlers of a chain that carry the documentation field k, in chain order
carriers(handlers, k) ==
  SelectSeq(handlers, LAMBDA h : h.doc /\ k \in DOMAIN h.swaggerOptions)

DocumentedFields == {"tags", "summary", "description"}

\* C11: a decorated verb call that adds an entry gives it, for each of tags, summary and
\* description that a documentRoute middleware of the chain supplies, the value of the last
\* middleware of the chain that supplies it.
C11_DecoratedEntry ==
  \A call \in AppCalls :
    LET result == wrappedAppMethod(routes, call[1], call[2], call[3]).routes
    IN (isString(call[2]) /\ Len(result) = Len(routes) + 1)
       => \A k \in DocumentedFields :
            LET given == carriers(call[3], k)
            IN given # <<>> => result[Len(result)][k] = given[Len(given)].swaggerOptions[k]

\* the entry of a call with two documentRoute middlewares: tags and description of the
\* first, summary of the second
C11_Witness ==
  \E i \in 1..Len(routes) :
    /\ Key(routes[i]) = <<"get", PA>>
    /\ routes[i].tags = UserDoc.tags
    /\ Get(routes[i], "summary") = SummaryDoc.summary
    /\ Get(routes[i], "description") = UserDoc.description

\* C12: once the sub-router is mounted on the documented app at B and the second router
\* is then mounted on the sub-router at C, every verb call m(p) on the second router
\* leaves an entry (m, canonical(B + C + p)) in the registry.
C12_NestedMountRecorded ==
  [][\A call \in NestedCalls :
       \A n \in 1..Len(nested.mounts) :
         \A h \in 1..Len(nested.mounts[n].parent) :
           nested'.routes = honoAddRoute(nested.routes, call[1], call[2])
             => isRouteDocumented(routes', call[1],
                  Canonical(nested.mounts[n].parent[h] \o nested.mounts[n].basePath \o call[2]))
    ]_vars

\* C13: with interception alone, once the sub-router is mounted at B every verb call m(p)
\* made on it, before the mount or after it, has its entry under B + p in the registry.
C13_RecordedAroundMount ==
  \A call \in SubCalls :
    \A h \in 1..Len(subApp.hooks) :
      (\E i \in 1..Len(subApp.routes) :
         subApp.routes[i] = [method |-> toUpperCase(call[1]), path |-> call[2]])
      => isRouteDocumented(routes, call[1],
           normalizePath(convertToOpenAPIPath(subApp.hooks[h] \o call[2], NoContext)))

\* C14: a verb call whose first argument is not a path string leaves the registry as it
\* was, raises nothing to the caller and still reaches the original method.
C14_ObservationFailureContained ==
  \A call \in AppCalls :
    LET result == wrappedAppMethod(routes, call[1], call[2], call[3])
    IN ~isString(call[2])
       => /\ result.routes = routes
          /\ \A i \in 1..Len(result.events) : result.events[i] # "TypeError"
          /\ result.events[Len(result.events)] = "originalMethod"

\* the pair under which the wrappers and the scan store a route of raw path `raw`
storedKey(method, raw) ==
  <<toLowerCase(method), normalizePath(convertToOpenAPIPath(raw, NoContext))>>

\* C15: a route m(p) of the sub-router that interception has recorded under its mount
\* path B and that the scan of the file declaring the router has recorded too is one
\* entry of the registry.
C15_OneEntryForBoth ==
  \A call \in SubCalls :
    \A h \in 1..Len(subApp.hooks) :
      \A f \in 1..Len(scanForRouters(files).routers) :
        LET router == scanForRouters(files).routers[f]
            intercepted == storedKey(call[1], subApp.hooks[h] \o call[2])
            scanned == storedKey(call[1], generateBasePathFromFilePath(router.filePath) \o call[2])
        IN (/\ autoScanEnabled
            /\ \E r \in 1..Len(router.routes) :
                 router.routes[r].method = call[1] /\ router.routes[r].path = call[2]
            /\ intercepted \in Keys(routes)
            /\ scanned \in Keys(routes))
           => intercepted = scanned

\* C16: with scanning enabled and the files as they are, a scan that follows a scan, asked
\* for by the caller or started by the file watcher, leaves the registry as the first
\* scan left it: same entries, same order, same field values.
C16_RescanChangesNothing ==
  LET once == scanAndRegisterRouters(routes, files, TRUE)
  IN /\ scanAndRegisterRouters(once, files, TRUE) = once
     /\ scanRouters(once, files) = once

\* both routes of the edited router file are in the registry after a scan, and a further
\* scan finds nothing to do
C16_Witness ==
  /\ autoScanEnabled
  /\ files[1].routes = <<RootRoute, ItemRoute>>
  /\ \A r \in 1..2 :
       storedKey(files[1].routes[r].method,
                 generateBasePathFromFilePath(RouterFile) \o files[1].routes[r].path)
         \in Keys(routes)
  /\ scanAndRegisterRouters(routes, files, TRUE) = routes

operations(paths) ==
  {<<path, method>> \in (DOMAIN paths) \X {"get", "post", "GET", "POST"} :
     method \in DOMAIN paths[path]}

\* C18: with scanning enabled, the document rendered after a rescan that completes has an
\* operation for every route call the router files hold, and none for a route call that
\* an earlier scan recorded and the files no longer hold.
C18_DocumentFollowsFiles ==
  LET after == scanAndRegisterRouters(routes, files, TRUE)
      paths == generateOpenAPISpec(after, thisOptions).paths
      routers == scanForRouters(files).routers
      declared == UNION {{storedKey(routers[f].routes[r].method,
                                    generateBasePathFromFilePath(routers[f].filePath)
                                      \o routers[f].routes[r].path) :
                            r \in 1..Len(routers[f].routes)} : f \in 1..Len(routers)}
  IN ((autoScanEnabled \/ fileWatcher) /\ ~scanForRouters(files).threw)
     => /\ \A key \in declared : <<key[2], key[1]>> \in operations(paths)
        /\ \A op \in operations(paths) :
             Get(paths[op[1]][op[2]], "description") = fileDescription(RouterFile)
               => <<op[2], op[1]>> \in declared

\* C19: whatever fails on one entry of the source tree, scanForRouters returns, with the
\* descriptor of every router file that can be read and none for the entry that failed.
C19_ScanSurvivesOneFailure ==
  LET result == scanForRouters(files)
      returned == {result.routers[i].filePath : i \in 1..Len(result.routers)}
  IN /\ ~result.threw
     /\ \A i \in 1..Len(files) :
          files[i].filePath \in returned
            <=> (files[i].stat = "file" /\ files[i].readable /\ files[i].routerName # "")

\* C20: the rendered document has one operation per registry entry and no other: the
\* operation at paths[r.path][r.method] carries the tags, summary, parameters and
\* responses of entry r, and every operation is at the pair of an entry.
C20_OneOperationPerEntry ==
  LET paths == generateOpenAPISpec(routes, thisOptions).paths
  IN /\ \A i \in 1..Len(routes) :
          LET r == routes[i]
          IN /\ <<r.path, r.method>> \in operations(paths)
             /\ paths[r.path][r.method].tags = r.tags
             /\ Get(paths[r.path][r.method], "summary") = Get(r, "summary")
             /\ paths[r.path][r.method].parameters = r.parameters
             /\ paths[r.path][r.method].responses = r.responses
     /\ \A op \in operations(paths) : <<op[2], op[1]>> \in Keys(routes)
     /\ Cardinality(operations(paths)) = Len(routes)

\* two entries share the path /a under different methods and the document has both
\* operations under that one path
C20_Witness ==
  /\ <<"get", PA>> \in Keys(routes)
  /\ <<"post", PA>> \in Keys(routes)
  /\ DOMAIN generateOpenAPISpec(routes, thisOptions).paths = {PA}
  /\ DOMAIN generateOpenAPISpec(routes, thisOptions).paths[PA] = {"get", "post"}

\* the debounce delays a FileWatcher is built with: 500 ms and the default
DebounceChoices == {1, DefaultDebounceMs}

\* a FileWatcher built with the callbacks of enableFileWatching
InitWatch ==
  /\ routes = <<>>
  /\ subApp = [hooks |-> <<>>, routes |-> <<>>]
  /\ nested = [mounts |-> <<>>, routes |-> <<>>]
  /\ autoScanEnabled = FALSE
  /\ middleware = FALSE
  /\ files = SourceTree
  /\ fileWatcher = TRUE
  /\ thisOptions = construct(UserOptions)
  /\ document = <<>>
  /\ fw \in {NewFileWatcher(debounceMs) : debounceMs \in DebounceChoices}
  /\ analyzer = NoConversion

NextWatch ==
  \/ StartWatching
  \/ StopWatching
  \/ ChangeEvent
  \/ Timeout
  \/ Tick
  \/ EditFile
  \/ TouchEntry

SpecWatch == InitWatch /\ [][NextWatch]_vars

\* what a Timeout step does to the watcher
TimeoutOfWatcher ==
  \E t \in fw.timers :
    /\ t.delay = 0
    /\ fw' = scanRoutersAt([fw EXCEPT !.timers = @ \ {t}], files)

\* the event loop runs the timeouts that are due, and time passes
SpecWatchLive == SpecWatch /\ WF_fw(TimeoutOfWatcher) /\ WF_vars(Tick)

\* ------------------------------------------------------------- schemas
MaxChecks == 2
MaxFields == 2

StringChecks ==
  { Check("email"), Check("url"), ValueCheck("min", 1), ValueCheck("max", 3),
    RegexCheck("^a"), BrokenRegexCheck, Check("uuid") }

NumberChecks == { ValueCheck("min", 0), ValueCheck("max", 9), Check("int") }

\* the chains of at most n checks
Chains(checks, n) == UNION {[1..k -> checks] : k \in 0..n}

\* z.string() and z.number() followed by their refinements
StringSchemas == {ZodString(checks) : checks \in Chains(StringChecks, MaxChecks)}
NumberSchemas == {ZodNumber(checks) : checks \in Chains(NumberChecks, MaxChecks)}

ElementSchemas ==
  { ZodString(<<>>), ZodString(<<Check("email"), ValueCheck("min", 1)>>),
    ZodString(<<BrokenRegexCheck>>), ZodNumber(<<Check("int"), ValueCheck("min", 0)>>),
    ZodBoolean, ZodDate, NullSchema, BrokenObject }

WrappedSchemas ==
  UNION { { ZodOptional(e), ZodDefault(e, Str("x")), BrokenDefault(e), ZodArray(e),
            ZodNullable(e) } : e \in ElementSchemas }

UnionSchemas ==
  {ZodUnion(<<a, b>>) : a \in ElementSchemas, b \in {ZodString(<<>>), BrokenObject}}
  \cup {BrokenUnion}

\* the schemas of the fields of an object, and the keys of the fields by position
FieldSchemas ==
  { ZodString(<<>>), ZodOptional(ZodNumber(<<Check("int"), ValueCheck("min", 0)>>)),
    ZodDefault(ZodString(<<>>), Str("x")), ZodNullable(ZodOptional(ZodString(<<>>))),
    ZodArray(ZodString(<<BrokenRegexCheck>>)), BrokenObject,
    ZodObject(<<<<"n", ZodOptional(ZodBoolean)>>>>) }

FieldKeys == <<"a", "b", "c", "d">>

ObjectSchemas ==
  { ZodObject([i \in 1..Len(fields) |-> <<FieldKeys[i], fields[i]>>]) :
      fields \in UNION {[1..k -> FieldSchemas] : k \in 0..MaxFields} }

ZodSchemas ==
  StringSchemas \cup NumberSchemas \cup ElementSchemas \cup WrappedSchemas
  \cup UnionSchemas \cup ObjectSchemas
  \cup { ZodEnum(<<Str("red"), Str("green"), Str("blue")>>),
         ZodLiteral(Str("a")), ZodLiteral(Num("1")) }

\* HonoSwaggerAnalyzer.zodToOpenAPI(schema)
ZodToOpenAPI ==
  /\ analyzer.returned = <<>>
  /\ analyzer' = [analyzer EXCEPT !.returned = <<zodToOpenAPI(analyzer.schema)>>]
  /\ UNCHANGED <<routes, subApp, nested, autoScanEnabled, middleware, files, fileWatcher,
                 thisOptions, document, fw>>

InitZod ==
  /\ routes = <<>>
  /\ subApp = [hooks |-> <<>>, routes |-> <<>>]
  /\ nested = [mounts |-> <<>>, routes |-> <<>>]
  /\ autoScanEnabled = FALSE
  /\ middleware = FALSE
  /\ files = SourceTree
  /\ fileWatcher = FALSE
  /\ thisOptions = construct(UserOptions)
  /\ document = <<>>
  /\ fw = NewFileWatcher(DefaultDebounceMs)
  /\ analyzer \in {[schema |-> schema, returned |-> <<>>] : schema \in ZodSchemas}

NextZod == ZodToOpenAPI

SpecZod == InitZod /\ [][NextZod]_vars

\* ------------------------------------------------------------- C21
\* C21: in the document returned by generateOpenAPISpec an operation has a requestBody
\* section exactly when its verb is post, put or patch; the section is the entry's own
\* request body when it stores one and the generic application/json object otherwise,
\* and the request body stored on an entry of another verb is not rendered.
C21_RequestBodyByVerb ==
  [][GenerateOpenAPISpec =>
       /\ \A p \in DOMAIN document'[1].paths :
            \A m \in DOMAIN document'[1].paths[p] :
              ("requestBody" \in DOMAIN document'[1].paths[p][m])
                <=> (m \in {"post", "put", "patch"})
       /\ \A i \in 1..Len(routes) :
            LET op == document'[1].paths[routes[i].path][routes[i].method]
            IN routes[i].method \in {"post", "put", "patch"} =>
                 op.requestBody = IF Truthy(Get(routes[i], "requestBody"))
                                  THEN routes[i].requestBody
                                  ELSE <<"application/json", "object">>]_vars

\* a document rendered from a post entry without a request body and a get entry with one
C21_Witness ==
  /\ document # <<>>
  /\ \E i, j \in 1..Len(routes) :
       /\ routes[i].method = "post" /\ ~Truthy(Get(routes[i], "requestBody"))
       /\ routes[j].method = "get" /\ Truthy(Get(routes[j], "requestBody"))
       /\ routes[i].path \in DOMAIN document[1].paths
       /\ "post" \in DOMAIN document[1].paths[routes[i].path]
       /\ routes[j].path \in DOMAIN document[1].paths
       /\ "get" \in DOMAIN document[1].paths[routes[j].path]

expectedInfoField(k) ==
  LET given == IF "info" \in DOMAIN thisOptions THEN thisOptions.info ELSE NoInfo
  IN IF Truthy(Get(given, k)) THEN given[k]
     ELSE IF Truthy(Get(thisOptions, k)) THEN thisOptions[k]
     ELSE DefaultOptions[k]

\* C23: for every options object the returned document has the format marker '3.0.0'
\* and an info block whose title, version and description are each the value under
\* options.info if set, else the top-level option, else the fixed default; contact and
\* license are in the info block exactly when they were supplied.
C23_InfoFallsBack ==
  document # <<>> =>
    LET given == IF "info" \in DOMAIN thisOptions THEN thisOptions.info ELSE NoInfo
    IN /\ document[1].openapi = "3.0.0"
       /\ \A k \in {"title", "version", "description"} :
            document[1].info[k] = expectedInfoField(k)
       /\ \A k \in {"contact", "license"} :
            (k \in DOMAIN document[1].info) <=> (k \in DOMAIN given)
       /\ \A k \in {"contact", "license"} \cap DOMAIN given :
            document[1].info[k] = given[k]

\* ------------------------------------------------------------- C29
\* C29: every entry created by an intercepted verb call or by a scan has exactly one
\* parameter {name, in: 'path', required: true, schema: {type: 'string'}} for each path
\* parameter of its route, in path order: the entry of '/a/:i' has the path '/a/{i}'
\* and one parameter named 'i'.
C29_OneParameterPerPathParameter ==
  \A i \in 1..Len(routes) :
    braceParams(routes[i].path, 1) # <<>> =>
      routes[i].parameters
        = [k \in 1..Len(braceParams(routes[i].path, 1)) |->
             [name |-> braceParams(routes[i].path, 1)[k], in |-> "path",
              required |-> TRUE, type |-> "string"]]

\* ------------------------------------------------------------- C24
\* C24: the watcher coalesces bursts. Each change event for a watched extension cancels
\* the pending debounce timer and starts a new one of debounceMs, so at most one timer
\* is pending at any time, and the scan of a burst is the one that its single timer
\* starts once it is due, after the last event, leaving no other timer behind.
C24_BurstCoalesced ==
  [][/\ Cardinality(fw'.timers) <= 1
     /\ (ChangeEvent /\ fw'.last \in {"debounced", "rescheduled"})
          => fw'.timers = {[handle |-> fw'.debounceTimer, delay |-> fw.debounceMs]}
     /\ Timeout => /\ fw.timers = {[handle |-> fw.debounceTimer, delay |-> 0]}
                   /\ fw'.timers = {}]_vars

\* a change event has cancelled the timer of an earlier event and started its own
C24_Witness ==
  /\ fw.watcher
  /\ fw.last = "rescheduled"
  /\ fw.timers = {[handle |-> fw.debounceTimer, delay |-> fw.debounceMs]}

\* ------------------------------------------------------------- C25
\* C25: while the watcher is running, every change event for a watched extension is
\* eventually followed by a scan that starts after the event and by the onRoutersChanged
\* notification of that scan, whatever debounceMs the watcher was built with.
C25_ChangeEventuallyScanned ==
  (fw.last \in {"debounced", "rescheduled"}) ~> (fw.last = "notified" \/ ~fw.watcher)

\* ------------------------------------------------------------- C30
\* C30: after stopWatching returns the pending debounce timer is cancelled, so no scan
\* starts and onRoutersChanged is not invoked for the events that came before it; a
\* later startWatching starts a fresh watcher; at most one underlying watcher is ever
\* active, and startWatching on a running watcher changes nothing.
C30_StoppedWatcherIsQuiet ==
  [][/\ StopWatching => (~fw'.watcher /\ fw'.timers = {} /\ fw'.debounceTimer = 0)
     /\ ~fw'.watcher => fw'.timers = {}
     /\ (~fw.watcher /\ ~fw'.watcher)
          => /\ (fw'.sinceLastScan = 0 => fw.sinceLastScan = 0)
             /\ routes' = routes
     /\ (StartWatching /\ ~fw.watcher /\ fw'.watcher)
          => (fw'.open = 1 /\ fw'.timers = {})
     /\ (StartWatching /\ fw.watcher)
          => (fw'.open = fw.open /\ fw'.timers = fw.timers /\ fw'.watcher
              /\ fw'.sinceLastScan = fw.sinceLastScan /\ routes' = routes)
     /\ fw'.open = IF fw'.watcher THEN 1 ELSE 0]_vars

\* stopWatching has cancelled the timer of a change event that no scan had followed
C30_Witness ==
  /\ fw.last = "cancelled"
  /\ ~fw.watcher
  /\ fw.open = 0
  /\ fw.timers = {}

\* ------------------------------------------------------------- C26
\* C26: for an object schema zodToOpenAPI puts a field name in `required` exactly when
\* the schema of the field is neither an optional wrapper nor a default wrapper, converts
\* every declared field into `properties`, and leaves `required` out, rather than
\* giving an empty list, when no field qualifies.
C26_RequiredFields ==
  (analyzer.returned # <<>> /\ analyzer.schema.kind = "ZodObject"
     /\ ~analyzer.schema.shapeThrows) =>
    LET shape == analyzer.schema.shape
        result == analyzer.returned[1].value
        listed == IF "required" \in DOMAIN result
                  THEN {result.required[j] : j \in 1..Len(result.required)} ELSE {}
    IN /\ result.type = "object"
       /\ DOMAIN result.properties = {shape[i][1] : i \in 1..Len(shape)}
       /\ \A i \in 1..Len(shape) :
            /\ result.properties[shape[i][1]] = zodToOpenAPI(shape[i][2]).value
            /\ (shape[i][1] \in listed)
                 <=> (shape[i][2].kind # "ZodOptional" /\ shape[i][2].kind # "ZodDefault")
       /\ ("required" \in DOMAIN result) <=> (listed # {})

\* an object of a plain field and a field with a default has been converted
C26_Witness ==
  /\ analyzer.returned # <<>>
  /\ analyzer.schema.kind = "ZodObject"
  /\ Len(analyzer.schema.shape) = 2
  /\ analyzer.schema.shape[1][2].kind = "ZodString"
  /\ analyzer.schema.shape[2][2].kind = "ZodDefault"
  /\ analyzer.returned[1].value.required = <<"a">>

\* ------------------------------------------------------------- C27
\* two chains of the same checks, in any order
sameChecks(a, b) ==
  /\ Len(a) = Len(b)
  /\ \A c \in StringChecks :
       Cardinality({i \in 1..Len(a) : a[i] = c}) = Cardinality({i \in 1..Len(b) : b[i] = c})

\* C27: for a string schema zodToOpenAPI merges every refinement of the chain into one
\* fragment, and the fragment is the same whatever the order in which the refinements
\* of the chain were applied.
C27_OrderOfRefinements ==
  (analyzer.returned # <<>> /\ analyzer.schema.kind = "ZodString") =>
    \A checks \in Chains(StringChecks, Len(analyzer.schema.checks)) :
      sameChecks(checks, analyzer.schema.checks)
        => zodToOpenAPI(ZodString(checks)) = analyzer.returned[1]

\* ------------------------------------------------------------- C28
\* a schema whose own conversion raises an exception
raises(schema) ==
  \/ schema.kind = "ZodString"
       /\ \E i \in 1..Len(schema.checks) :
            schema.checks[i].kind = "regex" /\ ~schema.checks[i].hasRegex
  \/ schema.kind = "ZodObject" /\ schema.shapeThrows
  \/ schema.kind = "ZodDefault" /\ schema.defaultThrows
  \/ schema.kind = "ZodUnion" /\ ~schema.hasOptions

\* absent, of an unsupported kind, or raising
fallsBack(schema) ==
  schema.kind \in {"null", "ZodDate", "ZodNullable"} \/ raises(schema)

\* C28: zodToOpenAPI is total: it returns a fragment for every input and never throws;
\* an absent schema, a schema of an unsupported kind and a schema whose conversion
\* raises an exception give the fallback {type: 'object'} at the place where they
\* stand, at the top or nested in an array, an object, a union or a wrapper.
C28_TotalWithFallback ==
  analyzer.returned # <<>> =>
    LET schema == analyzer.schema
        result == analyzer.returned[1].value
    IN /\ ~analyzer.returned[1].threw
       /\ fallsBack(schema) => result = [type |-> "object"]
       /\ (schema.kind = "ZodOptional" /\ fallsBack(schema.innerType))
            => result = [type |-> "object"]
       /\ (schema.kind = "ZodArray" /\ fallsBack(schema.type))
            => result = [type |-> "array", items |-> [type |-> "object"]]
       /\ (schema.kind = "ZodUnion" /\ schema.hasOptions)
            => \A i \in 1..Len(schema.options) :
                 fallsBack(schema.options[i]) => result.oneOf[i] = [type |-> "object"]
       /\ (schema.kind = "ZodObject" /\ ~schema.shapeThrows)
            => \A i \in 1..Len(schema.shape) :
                 LET field == schema.shape[i][2]
                     property == result.properties[schema.shape[i][1]]
                 IN /\ fallsBack(field) => property = [type |-> "object"]
                    /\ (field.kind = "ZodArray" /\ fallsBack(field.type))
                         => property = [type |-> "array", items |-> [type |-> "object"]]

\* an object has been converted whose field is an array of a string schema that raises
C28_Witness ==
  /\ analyzer.returned # <<>>
  /\ analyzer.schema.kind = "ZodObject"
  /\ \E i \in 1..Len(analyzer.schema.shape) :
       /\ analyzer.schema.shape[i][2].kind = "ZodArray"
       /\ raises(analyzer.schema.shape[i][2].type)
       /\ analyzer.returned[1].value.properties[analyzer.schema.shape[i][1]].items
            = [type |-> "object"]

====
